---- MODULE Spec2Model ----
(***************************************************************************)
(* H02 GPS-tracker protocol: the packet decoder's frame dispatch           *)
(* (protocols/h02/packet_decoder/packet_decoder.py) and the H02 payload    *)
(* object with its derived attributes (protocols/h02.py).                  *)
(*                                                                         *)
(* Text is modelled by TLA+ strings, a character being a string of length  *)
(* one.  Python floats are modelled as IEEE-754 binary64 values with exact *)
(* round-to-nearest-even arithmetic on arbitrary-precision naturals.       *)
(***************************************************************************)
EXTENDS Integers, Sequences, FiniteSets, TLC

VARIABLES
    obj,        \* the H02 instance (its fields), or NoObject
    built,      \* obj as its constructor left it
    reads,      \* for each attribute, the outcomes its reads on obj have had
    reread,     \* whether the last read was of an attribute read before
    twin_reads, \* the reads made on the instance obj replaced, when that one
                \* was built from a match differing in the hemisphere groups only
    bit_call,   \* the last direct get_bit_state call and its outcome
    raw_bytes,  \* the argument of the last H02PacketDecoder.decode call
    outcome,    \* how that decode call ended
    calls,      \* the decode paths that call invoked, with their arguments
    earlier     \* some earlier decode call: its raw_bytes, outcome and calls

vars == <<obj, built, reads, reread, twin_reads, bit_call,
          raw_bytes, outcome, calls, earlier>>

(***************************************************************************)
(* Characters.                                                             *)
(***************************************************************************)
CharAt(s, i) == SubSeq(s, i, i)

Digits == <<"0", "1", "2", "3", "4", "5", "6", "7", "8", "9">>

IsDigit(c) == \E i \in 1..10 : Digits[i] = c

DigitVal(c) == (CHOOSE i \in 1..10 : Digits[i] = c) - 1

AllDigits(s) == \A i \in 1..Len(s) : IsDigit(CharAt(s, i))

RECURSIVE DecVal(_)
\* the value of a string of decimal digits
DecVal(s) ==
    IF Len(s) = 0 THEN 0
    ELSE 10 * DecVal(SubSeq(s, 1, Len(s) - 1)) + DigitVal(CharAt(s, Len(s)))

(***************************************************************************)
(* Arbitrary-precision naturals: little-endian sequences of limbs in       *)
(* 0..Base-1 without leading zero limbs; <<>> is zero.                     *)
(***************************************************************************)
LimbBits == 15

Base == 2^LimbBits

RECURSIVE BNorm(_)
BNorm(x) ==
    IF x = <<>> THEN <<>>
    ELSE IF x[Len(x)] = 0 THEN BNorm(SubSeq(x, 1, Len(x) - 1))
    ELSE x

RECURSIVE BFromInt(_)
BFromInt(n) == IF n = 0 THEN <<>> ELSE <<n % Base>> \o BFromInt(n \div Base)

RECURSIVE BToInt(_)
BToInt(x) == IF x = <<>> THEN 0 ELSE x[1] + Base * BToInt(Tail(x))

RECURSIVE BMulSmallC(_, _, _)
\* x * n + c, for 0 <= n < Base
BMulSmallC(x, n, c) ==
    IF x = <<>> THEN BFromInt(c)
    ELSE LET t == x[1] * n + c
         IN  <<t % Base>> \o BMulSmallC(Tail(x), n, t \div Base)

BMulSmall(x, n) == BNorm(BMulSmallC(x, n, 0))

RECURSIVE BDivSmall(_, _)
\* quotient (not normalised) and remainder of x by n, for 0 < n < Base
BDivSmall(x, n) ==
    IF x = <<>> THEN [q |-> <<>>, r |-> 0]
    ELSE LET hi  == BDivSmall(Tail(x), n)
             cur == hi.r * Base + x[1]
         IN  [q |-> <<cur \div n>> \o hi.q, r |-> cur % n]

RECURSIVE BAddC(_, _, _)
BAddC(x, y, c) ==
    IF x = <<>> /\ y = <<>> THEN BFromInt(c)
    ELSE LET a == IF x = <<>> THEN 0 ELSE x[1]
             b == IF y = <<>> THEN 0 ELSE y[1]
             t == a + b + c
         IN  <<t % Base>> \o BAddC(IF x = <<>> THEN <<>> ELSE Tail(x),
                                   IF y = <<>> THEN <<>> ELSE Tail(y),
                                   t \div Base)

BAdd(x, y) == BNorm(BAddC(x, y, 0))

RECURSIVE BSubC(_, _, _)
\* x - y - c, for x >= y + c
BSubC(x, y, c) ==
    IF x = <<>> THEN <<>>
    ELSE LET b == IF y = <<>> THEN 0 ELSE y[1]
             t == x[1] - b - c
         IN  <<t % Base>> \o BSubC(Tail(x),
                                   IF y = <<>> THEN <<>> ELSE Tail(y),
                                   IF t < 0 THEN 1 ELSE 0)

BSub(x, y) == BNorm(BSubC(x, y, 0))

RECURSIVE BLessFrom(_, _, _)
BLessFrom(x, y, i) ==
    IF i = 0 THEN FALSE
    ELSE IF x[i] # y[i] THEN x[i] < y[i]
    ELSE BLessFrom(x, y, i - 1)

\* x < y, both normalised
BLess(x, y) ==
    IF Len(x) # Len(y) THEN Len(x) < Len(y) ELSE BLessFrom(x, y, Len(x))

RECURSIVE BMul(_, _)
BMul(x, y) ==
    IF x = <<>> \/ y = <<>> THEN <<>>
    ELSE BAdd(BMulSmall(x, y[1]),
              LET rest == BMul(x, Tail(y))
              IN  IF rest = <<>> THEN <<>> ELSE <<0>> \o rest)

RECURSIVE IntBitLen(_)
IntBitLen(n) == IF n = 0 THEN 0 ELSE 1 + IntBitLen(n \div 2)

BBitLen(x) ==
    IF x = <<>> THEN 0 ELSE LimbBits * (Len(x) - 1) + IntBitLen(x[Len(x)])

\* bit i of x, bit 0 the least significant
BBit(x, i) ==
    LET l == i \div LimbBits + 1
    IN  IF l > Len(x) THEN 0 ELSE (x[l] \div 2^(i % LimbBits)) % 2

\* x * 2^s
BShl(x, s) ==
    IF x = <<>> THEN <<>>
    ELSE [i \in 1..(s \div LimbBits) |-> 0] \o BMulSmall(x, 2^(s % LimbBits))

\* floor(x / 2^s)
BShr(x, s) ==
    LET w == s \div LimbBits
    IN  IF w >= Len(x) THEN <<>>
        ELSE BNorm(BDivSmall(SubSeq(x, w + 1, Len(x)), 2^(s % LimbBits)).q)

\* x mod 2^s = 0
BLowZero(x, s) ==
    LET w == s \div LimbBits
    IN  /\ \A i \in 1..w : i > Len(x) \/ x[i] = 0
        /\ w + 1 > Len(x) \/ x[w + 1] % 2^(s % LimbBits) = 0

BOdd(x) == x # <<>> /\ x[1] % 2 = 1

\* x / 2^s rounded to the nearest integer, ties to even; sticky says that the
\* exact value lies strictly above x, by less than one
BShrRound(x, s, sticky) ==
    IF s = 0 THEN x
    ELSE LET q    == BShr(x, s)
             half == BBit(x, s - 1) = 1
             rest == sticky \/ ~BLowZero(x, s - 1)
         IN  IF half /\ (rest \/ BOdd(q)) THEN BAdd(q, <<1>>) ELSE q

(***************************************************************************)
(* IEEE-754 binary64.  A finite double is [neg, m, e] of value             *)
(* (-1)^neg * m * 2^e with m of exactly MantBits bits, or m = <<>> for     *)
(* zero.  The values met here are far from the subnormal range.            *)
(***************************************************************************)
MantBits == 53

DZero == [neg |-> FALSE, m |-> <<>>, e |-> 0]

\* The double nearest to (-1)^neg * n * 2^e (+ a positive excess below one
\* unit of 2^e when sticky, n then having more than MantBits + 1 bits).
DRound(neg, n, e, sticky) ==
    IF n = <<>> THEN DZero
    ELSE LET l == BBitLen(n)
         IN  IF l <= MantBits
             THEN [neg |-> neg, m |-> BShl(n, MantBits - l), e |-> e - (MantBits - l)]
             ELSE LET s == l - MantBits
                      q == BShrRound(n, s, sticky)
                  IN  IF BBitLen(q) > MantBits
                      THEN [neg |-> neg, m |-> BShr(q, 1), e |-> e + s + 1]
                      ELSE [neg |-> neg, m |-> q, e |-> e + s]

\* guard bits: a quotient by a divisor below Base keeps more than MantBits + 1 bits
Guard == MantBits + LimbBits + 2

\* float("<k>e-<d>"): the double nearest to k / 10^d, 0 <= d <= 4
DFromDecimal(k, d) ==
    LET qr == BDivSmall(BShl(BFromInt(k), Guard), 10^d)
    IN  DRound(FALSE, BNorm(qr.q), -Guard, qr.r # 0)

DFromInt(n) ==
    IF n < 0 THEN DRound(TRUE, BFromInt(-n), 0, FALSE)
    ELSE DRound(FALSE, BFromInt(n), 0, FALSE)

\* a / n for a small positive integer n
DDivSmall(a, n) ==
    LET qr == BDivSmall(BShl(a.m, Guard), n)
    IN  DRound(a.neg, BNorm(qr.q), a.e - Guard, qr.r # 0)

DMul(a, b) == DRound(a.neg # b.neg, BMul(a.m, b.m), a.e + b.e, FALSE)

DAdd(a, b) ==
    IF a.m = <<>> THEN b
    ELSE IF b.m = <<>> THEN a
    ELSE LET e  == IF a.e < b.e THEN a.e ELSE b.e
             am == BShl(a.m, a.e - e)
             bm == BShl(b.m, b.e - e)
         IN  IF a.neg = b.neg THEN DRound(a.neg, BAdd(am, bm), e, FALSE)
             ELSE IF BLess(am, bm) THEN DRound(b.neg, BSub(bm, am), e, FALSE)
             ELSE DRound(a.neg, BSub(am, bm), e, FALSE)

\* format(a, '.<d>f') read back as a decimal: |a| * 10^d rounded to the
\* nearest integer, ties to even, split at the decimal point (d is 2 or 6).
\* "-0.00" and "0.00" read back as equal floats, so zero carries no sign.
DFormatFixed(a, d) ==
    LET scaled == IF d = 6 THEN BMulSmall(BMulSmall(a.m, 1000), 1000)
                  ELSE BMulSmall(a.m, 10^d)
        n      == IF a.e >= 0 THEN BShl(scaled, a.e)
                  ELSE BShrRound(scaled, -a.e, FALSE)
        hi     == IF d = 6 THEN BDivSmall(BNorm(BDivSmall(n, 1000).q), 1000)
                  ELSE BDivSmall(n, 10^d)
        lo     == IF d = 6 THEN BDivSmall(n, 1000).r + 1000 * hi.r ELSE hi.r
        whole  == BToInt(BNorm(hi.q))
    IN  [neg |-> a.neg /\ (whole # 0 \/ lo # 0), whole |-> whole, frac |-> lo]

(***************************************************************************)
(* Python conversions.  int() and float() also accept blanks around the    *)
(* number, a leading sign and "_" between digits, and float() an exponent  *)
(* ("e", "E"), "inf" and "nan".  Of these the strings converted here hold  *)
(* only "_" between decimal digits and a leading "-" on the degrees, which *)
(* PyFloat and PyInt cover; their other characters are digits, ".", "-"    *)
(* inside the number, ":", "x", "N" and "G".                               *)
(***************************************************************************)
Val(v) == [kind |-> "value", value |-> v]

Err(name) == [kind |-> name]

HexLower == <<"0", "1", "2", "3", "4", "5", "6", "7", "8", "9",
              "a", "b", "c", "d", "e", "f">>

HexUpper == <<"0", "1", "2", "3", "4", "5", "6", "7", "8", "9",
              "A", "B", "C", "D", "E", "F">>

IsHex(c) == \E i \in 1..16 : HexLower[i] = c \/ HexUpper[i] = c

HexVal(c) == (CHOOSE i \in 1..16 : HexLower[i] = c \/ HexUpper[i] = c) - 1

RECURSIVE HexStrVal(_)
HexStrVal(s) ==
    IF Len(s) = 0 THEN 0
    ELSE 16 * HexStrVal(SubSeq(s, 1, Len(s) - 1)) + HexVal(CharAt(s, Len(s)))

\* int(s, 16)
PyIntBase16(s) ==
    IF Len(s) >= 1 /\ \A i \in 1..Len(s) : IsHex(CharAt(s, i))
    THEN Val(HexStrVal(s))
    ELSE Err("ValueError")

\* int(s) of an optional "-" and decimal digits (what group 1 captures)
PyInt(s) ==
    IF CharAt(s, 1) = "-" THEN 0 - DecVal(SubSeq(s, 2, Len(s))) ELSE DecVal(s)

\* float(s): digits with one "." among them, plain digits, or digits joined
\* by one "_" (PEP 515); anything else is a ValueError
PyFloat(s) ==
    LET odd == {i \in 1..Len(s) : ~IsDigit(CharAt(s, i))}
    IN  IF Len(s) >= 1 /\ odd = {} THEN Val(DFromDecimal(DecVal(s), 0))
        ELSE IF Cardinality(odd) # 1 \/ Len(s) < 2 THEN Err("ValueError")
        ELSE LET p      == CHOOSE i \in odd : TRUE
                 before == SubSeq(s, 1, p - 1)
                 after  == SubSeq(s, p + 1, Len(s))
             IN  IF CharAt(s, p) = "."
                 THEN Val(DFromDecimal(DecVal(before \o after), Len(after)))
                 ELSE IF CharAt(s, p) = "_" /\ 1 < p /\ p < Len(s)
                 THEN Val(DFromDecimal(DecVal(before \o after), 0))
                 ELSE Err("ValueError")

\* re.match(r'(-?\d{n})(\d{2}.\d{4})', s): anchored at the start only; "."
\* is any character but a newline
ReMatchCoord(s, n) ==
    LET off == IF Len(s) >= 1 /\ CharAt(s, 1) = "-" THEN 1 ELSE 0
    IN  IF /\ Len(s) >= off + n + 7
           /\ AllDigits(SubSeq(s, off + 1, off + n + 2))
           /\ CharAt(s, off + n + 3) # "\n"
           /\ AllDigits(SubSeq(s, off + n + 4, off + n + 7))
        THEN [matched |-> TRUE,
              g1 |-> SubSeq(s, 1, off + n),
              g2 |-> SubSeq(s, off + n + 1, off + n + 7)]
        ELSE [matched |-> FALSE]

(***************************************************************************)
(* protocols/h02.py: class H02.                                            *)
(***************************************************************************)
\* helpers.chunks.get_chunks(s, n): the consecutive pieces of s of length n
get_chunks(s, n) ==
    [k \in 1..((Len(s) + n - 1) \div n) |->
        SubSeq(s, n * (k - 1) + 1, IF n * k < Len(s) THEN n * k ELSE Len(s))]

NoObject == [kind |-> "none"]

\* H02.__init__, for a match whose group 13 gives at least four chunks
H02(regex_match) ==
    LET vehicle_status_bytes == get_chunks(regex_match[13], 2)
    IN  [kind |-> "H02",
         regex_match |-> regex_match,
         vehicle_status_bytes |-> vehicle_status_bytes,
         vehicle_status_first_byte |-> vehicle_status_bytes[1],
         vehicle_status_second_byte |-> vehicle_status_bytes[2],
         vehicle_status_third_byte |-> vehicle_status_bytes[3],
         vehicle_status_fourth_byte |-> vehicle_status_bytes[4],
         _maker |-> regex_match[1],
         _device_serial_number |-> regex_match[2],
         _time |-> regex_match[4],
         _validity |-> regex_match[5],
         _direction |-> regex_match[11],
         _mobile_country_code |-> regex_match[14],
         _mobile_network_code |-> regex_match[15],
         _local_area_code |-> regex_match[16],
         _cell_id |-> regex_match[17]]

\* get_bit_state with the mask 1 << attribute_bit_location
get_bit_state_zero_based(hex_byte, attribute_bit_location) ==
    LET byte_val == PyIntBase16(hex_byte)
    IN  IF byte_val.kind # "value" THEN byte_val
        ELSE IF attribute_bit_location < 0 THEN Err("ValueError")
        ELSE LET mask == 2^attribute_bit_location
             IN  IF (byte_val.value \div mask) % 2 = 0 THEN Val(1) ELSE Val(0)

\* H02.get_bit_state
get_bit_state(hex_byte, attribute_bit_location) ==
    LET byte_val == PyIntBase16(hex_byte)
    IN  IF byte_val.kind # "value" THEN byte_val
        ELSE IF attribute_bit_location - 1 < 0
        THEN Err("ValueError")      \* 1 << negative: negative shift count
        ELSE LET mask == 2^(attribute_bit_location - 1)
             IN  IF (byte_val.value \div mask) % 2 = 0 THEN Val(1) ELSE Val(0)

\* _acc reading the first status byte
_acc_first_byte(self) == get_bit_state(self.vehicle_status_first_byte, 6)

\* H02._acc
_acc(self) == get_bit_state(self.vehicle_status_third_byte, 6)

\* the float 1.852
KnotsToKmh == DFromDecimal(1852, 3)

\* H02._speed
_speed(self) ==
    LET raw_speed == self.regex_match[10]
        knots     == PyFloat(raw_speed)
    IN  IF knots.kind # "value" THEN knots
        ELSE LET kmh == DMul(knots.value, KnotsToKmh)
             IN  Val(DFormatFixed(kmh, 2))

\* _latitude taking the minutes away from a negative degree part
_latitude_mirrored(self) ==
    LET latitude_raw == self.regex_match[6]
        match        == ReMatchCoord(latitude_raw, 2)
    IN  IF ~match.matched THEN Err("AttributeError")
        ELSE LET degrees == PyInt(match.g1)
                 minutes == PyFloat(match.g2)
             IN  IF minutes.kind # "value" THEN minutes
                 ELSE LET part   == DDivSmall(minutes.value, 60)
                          result == DAdd(DFromInt(degrees),
                                         IF degrees < 0
                                         THEN [part EXCEPT !.neg = TRUE]
                                         ELSE part)
                      IN  Val(DFormatFixed(result, 6))

\* _latitude negated in the southern hemisphere
_latitude_hemisphere(self) ==
    LET latitude_raw == self.regex_match[6]
        match        == ReMatchCoord(latitude_raw, 2)
    IN  IF ~match.matched THEN Err("AttributeError")
        ELSE LET degrees == PyInt(match.g1)
                 minutes == PyFloat(match.g2)
             IN  IF minutes.kind # "value" THEN minutes
                 ELSE LET result == DAdd(DFromInt(degrees),
                                         DDivSmall(minutes.value, 60))
                          south  == self.regex_match[7] = "S"
                      IN  Val(DFormatFixed(
                                [result EXCEPT !.neg = (@ # south)], 6))

\* H02._latitude
_latitude(self) ==
    LET latitude_raw == self.regex_match[6]
        match        == ReMatchCoord(latitude_raw, 2)
    IN  IF ~match.matched THEN Err("AttributeError")  \* None.group
        ELSE LET degrees == PyInt(match.g1)
                 minutes == PyFloat(match.g2)
             IN  IF minutes.kind # "value" THEN minutes
                 ELSE LET result == DAdd(DFromInt(degrees),
                                         DDivSmall(minutes.value, 60))
                      IN  Val(DFormatFixed(result, 6))

\* H02._longitude
_longitude(self) ==
    LET longitude_raw == self.regex_match[8]
        match         == ReMatchCoord(longitude_raw, 3)
    IN  IF ~match.matched THEN Err("AttributeError")  \* None.group
        ELSE LET degrees == PyInt(match.g1)
                 minutes == PyFloat(match.g2)
             IN  IF minutes.kind # "value" THEN minutes
                 ELSE LET result == DAdd(DFromInt(degrees),
                                         DDivSmall(minutes.value, 60))
                      IN  Val(DFormatFixed(result, 6))

(***************************************************************************)
(* protocols/h02/packet_decoder/packet_decoder.py: H02PacketDecoder.       *)
(***************************************************************************)
\* bytes.startswith
StartsWith(s, prefix) ==
    Len(s) >= Len(prefix) /\ SubSeq(s, 1, Len(prefix)) = prefix

Delegated(path) == [kind |-> "delegated", to |-> path]

Call(path, arg) == [path |-> path, arg |-> arg]

\* decode without its else branch: what is not ASCII is taken for binary
decode_without_else(raw) ==
    IF StartsWith(raw, "*")
    THEN [outcome |-> Delegated("decode_h02_ascii_packet"),
          calls   |-> <<Call("decode_h02_ascii_packet", raw)>>]
    ELSE [outcome |-> Delegated("decode_h02_binary_packet"),
          calls   |-> <<Call("decode_h02_binary_packet", raw)>>]

Contains(s, c) == \E i \in 1..Len(s) : CharAt(s, i) = c

\* decode testing b'*' in raw_bytes in place of startswith
decode_contains(raw) ==
    IF Contains(raw, "*")
    THEN [outcome |-> Delegated("decode_h02_ascii_packet"),
          calls   |-> <<Call("decode_h02_ascii_packet", raw)>>]
    ELSE IF Contains(raw, "$")
    THEN [outcome |-> Delegated("decode_h02_binary_packet"),
          calls   |-> <<Call("decode_h02_binary_packet", raw)>>]
    ELSE [outcome |-> Err("BadProtocolError"), calls |-> <<>>]

\* decode keeping the path of the call before for an unframed transmission
decode_sticky(raw) ==
    IF StartsWith(raw, "*")
    THEN [outcome |-> Delegated("decode_h02_ascii_packet"),
          calls   |-> <<Call("decode_h02_ascii_packet", raw)>>]
    ELSE IF StartsWith(raw, "$")
    THEN [outcome |-> Delegated("decode_h02_binary_packet"),
          calls   |-> <<Call("decode_h02_binary_packet", raw)>>]
    ELSE IF outcome.kind = "delegated"
    THEN [outcome |-> outcome, calls |-> <<Call(outcome.to, raw)>>]
    ELSE [outcome |-> Err("BadProtocolError"), calls |-> <<>>]

\* H02PacketDecoder.decode: how the call ends and the decode paths it
\* invokes.  A delegated call ends as the decode path ends: its return value
\* is returned, and the except clause re-raises what it raised.
decode(raw) ==
    IF StartsWith(raw, "*")
    THEN [outcome |-> Delegated("decode_h02_ascii_packet"),
          calls   |-> <<Call("decode_h02_ascii_packet", raw)>>]
    ELSE IF StartsWith(raw, "$")
    THEN [outcome |-> Delegated("decode_h02_binary_packet"),
          calls   |-> <<Call("decode_h02_binary_packet", raw)>>]
    ELSE [outcome |-> Err("BadProtocolError"), calls |-> <<>>]

(***************************************************************************)
(* Inputs.                                                                 *)
(***************************************************************************)
\* speed tokens run over 000.00 .. MaxSpeed / 100 knots
MaxSpeed == 130

\* get_bit_state is called with locations MinBitLocation..MaxBitLocation
MaxBitLocation == 10

MinBitLocation == 0 - 1

BitLocations == MinBitLocation..MaxBitLocation

Digit(n) == Digits[(n % 10) + 1]

\* k hundredths as DDD.DD
SpeedToken(k) ==
    Digit(k \div 10000) \o Digit(k \div 1000) \o Digit(k \div 100) \o "."
        \o Digit(k \div 10) \o Digit(k)

SpeedTokens ==
    {SpeedToken(k) : k \in 0..MaxSpeed}
        \cup {"003.75", "010.00", "013.75", "999.99"}

Signs == {"", "-"}

MinuteDigits == {"00", "13", "59"}

FractionDigits == {"0000", "5467", "9999"}

ShapedCoordinates(degrees) ==
    {s \o d \o m \o "." \o f :
        s \in Signs, d \in degrees, m \in MinuteDigits, f \in FractionDigits}

LatitudeTokens ==
    ShapedCoordinates({"00", "01", "44", "89"})
        \cup {"", "4413", "441.5467", "4413.546", "44135.467", "12754.4324",
              "x413.5467", "44-13.5467", "4413x5467", "4413:5467",
              "441355467", "4413_5467", "4413.54679", "4413.5467N",
              "-4413.5467.1"}

LongitudeTokens ==
    ShapedCoordinates({"000", "001", "127", "179"})
        \cup {"", "12754", "1275.4324", "12754.432", "127544.324", "4413.5467",
              "x2754.4324", "127-54.4324", "12754x4324", "12754:4324",
              "1275444324", "12754_4324", "12754.43249", "12754.4324E",
              "-12754.4324.1"}

HexChars == {HexLower[i] : i \in 1..16} \cup {HexUpper[i] : i \in 1..16}

\* every 2-character hexadecimal token, in either letter case
ByteTokens == {a \o b : a \in HexChars, b \in HexChars}

UpperByteTokens == {HexUpper[i] \o HexUpper[j] : i \in 1..16, j \in 1..16}

OtherByteTokens == {"00", "DF", "20", "FF"}

StatusBlobs ==
    {"FFFF" \o b \o "FF" : b \in UpperByteTokens \cup {"df", "9f", "Df", "fF"}}
        \cup {a \o b \o c \o d :
                a \in OtherByteTokens, b \in OtherByteTokens,
                c \in {"9F", "DF", "00", "20"}, d \in OtherByteTokens}

BaseMatch ==
    <<"HQ", "1234567890", "V1", "123519", "A", "4413.5467", "N",
      "12754.4324", "E", "010.00", "000", "010120", "FFFF9FFF",
      "282", "02", "1234", "5678">>

With(match, group, token) == [match EXCEPT ![group] = token]

\* the matches the payload attributes are read from
PayloadMatches ==
    {With(BaseMatch, 6, s) : s \in LatitudeTokens}
        \cup {With(BaseMatch, 8, s) : s \in LongitudeTokens}
        \cup {With(BaseMatch, 10, s) : s \in SpeedTokens}
        \cup {With(BaseMatch, 13, s) : s \in StatusBlobs}

\* matches whose coordinates are read under every pair of hemisphere tokens
TwinMatches ==
    {With(With(BaseMatch, 6, lat), 8, lon) :
        lat \in {"4413.5467", "-4413.5467", "0000.0000", "8959.9999",
                 "-0013.5467", "4413.54679", "4413x5467", "441.5467"},
        lon \in {"12754.4324", "-12754.4324", "00000.0000", "127544.324"}}

SampleMatches ==
    {BaseMatch,
     With(With(BaseMatch, 6, "-0013.5467"), 13, "FFFFDFFF"),
     With(With(BaseMatch, 10, "001.25"), 8, "12754.4324E"),
     With(With(BaseMatch, 6, "441.5467"), 10, "1x25")}

RawTransmissions ==
    {"", "*", "$", "#garbage", "HQ*", " $",
     "*HQ,1234567890,V1#", "$ABC", "*$", "$*"}

(***************************************************************************)
(* The state machine.                                                      *)
(***************************************************************************)
NoCall == [kind |-> "none"]

Attributes == {"_acc", "_speed", "_latitude", "_longitude"}

NoReads == [attr \in Attributes |-> <<>>]

decoder_vars == <<raw_bytes, outcome, calls, earlier>>

payload_vars == <<obj, built, reads, reread, twin_reads>>

\* no instance, no call made
Init ==
    /\ obj = NoObject
    /\ built = NoObject
    /\ reads = NoReads
    /\ reread = FALSE
    /\ twin_reads = NoReads
    /\ bit_call = NoCall
    /\ raw_bytes = ""
    /\ outcome = NoCall
    /\ calls = <<>>
    /\ earlier = NoCall

\* two matches that differ in group 7 or 9 and in no other group
HemisphereTwins(m1, m2) ==
    /\ m1 # m2
    /\ \A g \in 1..17 : g \in {7, 9} \/ m1[g] = m2[g]

\* H02(regex_match); with fewer than four status chunks the constructor
\* raises IndexError and there is no instance
Construct(regex_match) ==
    /\ Len(get_chunks(regex_match[13], 2)) >= 4
    /\ obj' = H02(regex_match)
    /\ built' = obj'
    /\ reads' = NoReads
    /\ reread' = FALSE
    /\ twin_reads' = IF obj.kind = "H02"
                        /\ HemisphereTwins(obj.regex_match, regex_match)
                     THEN reads ELSE NoReads
    /\ UNCHANGED <<bit_call, decoder_vars>>

\* the outcomes seen, in order, an outcome equal to the one before it left out
Seen(seen, value) ==
    IF seen # <<>> /\ seen[Len(seen)] = value THEN seen ELSE Append(seen, value)

\* reading a property of obj
Read(attr, value) ==
    /\ reads' = [reads EXCEPT ![attr] = Seen(@, value)]
    /\ reread' = (reads[attr] # <<>>)
    /\ UNCHANGED <<obj, built, twin_reads, bit_call, decoder_vars>>

ReadAcc == obj.kind = "H02" /\ Read("_acc", _acc(obj))

ReadSpeed == obj.kind = "H02" /\ Read("_speed", _speed(obj))

ReadLatitude == obj.kind = "H02" /\ Read("_latitude", _latitude(obj))

ReadLongitude == obj.kind = "H02" /\ Read("_longitude", _longitude(obj))

\* the direct call of get_bit_state that bit_call holds the arguments of
GetBitState ==
    /\ bit_call.kind = "pending"
    /\ bit_call' =
         [bit_call EXCEPT
            !.kind = "get_bit_state",
            !.outcome = get_bit_state(bit_call.hex_byte,
                                      bit_call.attribute_bit_location)]
    /\ UNCHANGED <<payload_vars, decoder_vars>>

\* a call of H02PacketDecoder.decode; the call made before it may be kept
\* in earlier
Decode(raw) ==
    LET result == decode(raw)
    IN  /\ raw_bytes' = raw
        /\ outcome' = result.outcome
        /\ calls' = result.calls
        /\ earlier' \in
             {earlier} \cup
             (IF outcome.kind = "none" THEN {}
              ELSE {[kind |-> "decode", raw_bytes |-> raw_bytes,
                     outcome |-> outcome, calls |-> calls]})
        /\ UNCHANGED <<payload_vars, bit_call>>

\* the whole program on sample inputs
Next ==
    \/ \E raw \in RawTransmissions : Decode(raw)
    \/ \E regex_match \in SampleMatches : Construct(regex_match)
    \/ ReadAcc
    \/ ReadSpeed
    \/ ReadLatitude
    \/ ReadLongitude

Spec == Init /\ [][Next]_vars

\* get_bit_state on every byte token and location
InitBits ==
    /\ obj = NoObject
    /\ built = NoObject
    /\ reads = NoReads
    /\ reread = FALSE
    /\ twin_reads = NoReads
    /\ \E hex_byte \in ByteTokens \cup {"", "F", "GF", "F-"},
          attribute_bit_location \in BitLocations :
            bit_call = [kind |-> "pending",
                        hex_byte |-> hex_byte,
                        attribute_bit_location |-> attribute_bit_location,
                        outcome |-> NoCall]
    /\ raw_bytes = ""
    /\ outcome = NoCall
    /\ calls = <<>>
    /\ earlier = NoCall

NextBits == GetBitState

SpecBits == InitBits /\ [][NextBits]_vars

Constructed(matches) ==
    /\ \E regex_match \in matches : obj = H02(regex_match)
    /\ built = obj
    /\ reads = NoReads
    /\ reread = FALSE
    /\ twin_reads = NoReads
    /\ bit_call = NoCall
    /\ raw_bytes = ""
    /\ outcome = NoCall
    /\ calls = <<>>
    /\ earlier = NoCall

\* the attributes of an instance constructed from any of PayloadMatches
InitPayload == Constructed(PayloadMatches)

NextPayload ==
    \/ ReadAcc
    \/ ReadSpeed
    \/ ReadLatitude
    \/ ReadLongitude

SpecPayload == InitPayload /\ [][NextPayload]_vars

\* the coordinates of instances whose matches differ in the hemisphere
\* tokens only
InitTwin == Constructed(TwinMatches)

ConstructTwin ==
    /\ obj.kind = "H02"
    /\ \E ns \in {"N", "S"}, ew \in {"E", "W"} :
         Construct(With(With(obj.regex_match, 7, ns), 9, ew))

NextTwin ==
    \/ ConstructTwin
    \/ ReadLatitude
    \/ ReadLongitude

SpecTwin == InitTwin /\ [][NextTwin]_vars

(***************************************************************************)
(* The claims.                                                             *)
(***************************************************************************)
Decoded == outcome.kind # "none"

FirstByte(s) == IF s = "" THEN "" ELSE CharAt(s, 1)

\* C1: a decode call on a transmission that is empty or whose first byte is
\* neither '*' nor '$' ends with BadProtocolError (the code's name for the
\* unsupported-frame error) and enters neither decode path.
C1_UnsupportedFrame ==
    Decoded /\ FirstByte(raw_bytes) \notin {"*", "$"}
        => outcome = Err("BadProtocolError") /\ calls = <<>>

C1_Witness ==
    raw_bytes = "#garbage" /\ outcome = Err("BadProtocolError") /\ calls = <<>>

\* C2: the first byte alone selects the decode path: '*' is handed to the
\* ASCII path and never to the binary one, '$' to the binary path and never
\* to the ASCII one; a decode call invokes at most one path, once, with the
\* raw bytes it was given.
C2_Dispatch ==
    Decoded =>
        /\ FirstByte(raw_bytes) = "*" =>
              /\ calls = <<Call("decode_h02_ascii_packet", raw_bytes)>>
              /\ outcome = Delegated("decode_h02_ascii_packet")
        /\ FirstByte(raw_bytes) = "$" =>
              /\ calls = <<Call("decode_h02_binary_packet", raw_bytes)>>
              /\ outcome = Delegated("decode_h02_binary_packet")
        /\ Len(calls) <= 1
        /\ \A i \in 1..Len(calls) : calls[i].arg = raw_bytes

C2_Witness ==
    /\ raw_bytes = "$*"
    /\ calls = <<Call("decode_h02_binary_packet", "$*")>>
    /\ earlier.kind = "decode"
    /\ earlier.calls = <<Call("decode_h02_ascii_packet", "*$")>>

\* the bits of an 8-bit value, position 1 the least significant
RECURSIVE BitsFrom(_, _)
BitsFrom(v, n) == IF n = 0 THEN <<>> ELSE <<v % 2>> \o BitsFrom(v \div 2, n - 1)

ByteBit(token, p) == BitsFrom(HexStrVal(token), 8)[p]

BitCalled == bit_call.kind = "get_bit_state"

\* C3: negative logic: for every 2-character hexadecimal token, in either
\* letter case, and every position 1..8 from the least significant bit,
\* get_bit_state returns 0 iff that bit of the byte is 1, and 1 iff it is 0.
C3_NegativeLogic ==
    /\ BitCalled
    /\ bit_call.hex_byte \in ByteTokens
    /\ bit_call.attribute_bit_location \in 1..8
    => /\ bit_call.outcome.kind = "value"
       /\ bit_call.outcome.value = 0
            <=> ByteBit(bit_call.hex_byte, bit_call.attribute_bit_location) = 1
       /\ bit_call.outcome.value = 1
            <=> ByteBit(bit_call.hex_byte, bit_call.attribute_bit_location) = 0

C3_Witness ==
    /\ BitCalled
    /\ bit_call.hex_byte = "dF"
    /\ bit_call.attribute_bit_location = 6
    /\ bit_call.outcome = Val(1)

\* C4: for every 2-character hexadecimal token, get_bit_state with a
\* position outside 1..8 fails and returns no value.
C4_InvalidPositionFails ==
    /\ BitCalled
    /\ bit_call.hex_byte \in ByteTokens
    /\ bit_call.attribute_bit_location \notin 1..8
    => bit_call.outcome.kind # "value"

\* a token of the shape [-]D{n}MM.MMMM and nothing else
Shaped(token, n) ==
    LET off == IF Len(token) >= 1 /\ CharAt(token, 1) = "-" THEN 1 ELSE 0
    IN  /\ Len(token) = off + n + 7
        /\ AllDigits(SubSeq(token, off + 1, off + n + 2))
        /\ CharAt(token, off + n + 3) = "."
        /\ AllDigits(SubSeq(token, off + n + 4, off + n + 7))

Decimal(scaled, scale) ==
    LET abs == IF scaled < 0 THEN 0 - scaled ELSE scaled
    IN  [neg |-> scaled < 0, whole |-> abs \div scale, frac |-> abs % scale]

\* degrees + minutes/60 in millionths of a degree, rounded to the nearest;
\* a ten-thousandth of a minute is 5/3 millionths of a degree, so no value
\* lies halfway
DegreesRounded(token, n) ==
    LET off     == IF CharAt(token, 1) = "-" THEN 1 ELSE 0
        degrees == DecVal(SubSeq(token, off + 1, off + n))
        signed  == IF off = 1 THEN 0 - degrees ELSE degrees
        minutes == DecVal(SubSeq(token, off + n + 1, off + n + 2)
                            \o SubSeq(token, off + n + 4, off + n + 7))
    IN  Decimal(signed * 10^6 + (10 * minutes + 3) \div 6, 10^6)

IsObject == obj.kind = "H02"

\* C5: for every token of the shape [-]D{n}MM.MMMM (n = 2 for the latitude,
\* 3 for the longitude) the attribute is degrees + minutes/60 rounded to 6
\* decimal places, degrees being the signed value of the degree part.
C5_DecimalDegrees ==
    IsObject =>
        /\ Shaped(obj.regex_match[6], 2) =>
              \A i \in 1..Len(reads["_latitude"]) :
                  reads["_latitude"][i] = Val(DegreesRounded(obj.regex_match[6], 2))
        /\ Shaped(obj.regex_match[8], 3) =>
              \A i \in 1..Len(reads["_longitude"]) :
                  reads["_longitude"][i] = Val(DegreesRounded(obj.regex_match[8], 3))

C5_Witness ==
    /\ IsObject
    /\ obj.regex_match[6] = "4413.5467"
    /\ obj.regex_match[8] = "12754.4324"
    /\ reads["_latitude"] = <<Val([neg |-> FALSE, whole |-> 44, frac |-> 225778])>>
    /\ reads["_longitude"] = <<Val([neg |-> FALSE, whole |-> 127, frac |-> 907207])>>

\* C6: for every token that has not the shape [-]D{n}MM.MMMM the attribute
\* fails and gives no number.
C6_MalformedFails ==
    IsObject =>
        /\ ~Shaped(obj.regex_match[6], 2) =>
              \A i \in 1..Len(reads["_latitude"]) :
                  reads["_latitude"][i].kind # "value"
        /\ ~Shaped(obj.regex_match[8], 3) =>
              \A i \in 1..Len(reads["_longitude"]) :
                  reads["_longitude"][i].kind # "value"

SpeedShaped(token) ==
    /\ Len(token) = 6
    /\ AllDigits(SubSeq(token, 1, 3))
    /\ CharAt(token, 4) = "."
    /\ AllDigits(SubSeq(token, 5, 6))

\* knots x 1.852 in thousandths of a km/h, for a token DDD.DD
KmhThousandths(token) ==
    (DecVal(SubSeq(token, 1, 3) \o SubSeq(token, 5, 6)) * 1852) \div 100

HalfUp(thousandths) == (thousandths + 5) \div 10

HalfEven(thousandths) ==
    LET q == thousandths \div 10
        r == thousandths % 10
    IN  IF r > 5 \/ (r = 5 /\ q % 2 = 1) THEN q + 1 ELSE q

\* C7: for every speed token DDD.DD in knots the speed attribute is
\* knots x 1.852 rounded to 2 decimal places (a value halfway rounded up or
\* to even).
C7_SpeedRounded ==
    IsObject /\ SpeedShaped(obj.regex_match[10]) =>
        \A i \in 1..Len(reads["_speed"]) :
            \/ reads["_speed"][i]
                 = Val(Decimal(HalfUp(KmhThousandths(obj.regex_match[10])), 100))
            \/ reads["_speed"][i]
                 = Val(Decimal(HalfEven(KmhThousandths(obj.regex_match[10])), 100))

C9_AccThirdByte ==
    IsObject =>
        /\ obj.vehicle_status_bytes
             = [k \in 1..4 |-> SubSeq(obj.regex_match[13], 2 * k - 1, 2 * k)]
        /\ \A i \in 1..Len(reads["_acc"]) :
              reads["_acc"][i]
                = Val(IF ByteBit(SubSeq(obj.regex_match[13], 5, 6), 6) = 0
                      THEN 1 ELSE 0)

C9_Witness ==
    /\ IsObject
    /\ obj.regex_match[13] = "00002000"
    /\ reads["_acc"] = <<Val(0)>>

Coordinates == {"_latitude", "_longitude"}

Unsigned(token) == token = "" \/ CharAt(token, 1) # "-"

\* C10: the latitude and the longitude do not depend on the hemisphere
\* tokens: instances whose matches differ in groups 7 and 9 only give the
\* same coordinates, and a token without a leading '-' gives no negative
\* value in either hemisphere.
C10_HemisphereIgnored ==
    /\ \A attr \in Coordinates :
          reads[attr] # <<>> /\ twin_reads[attr] # <<>>
              => reads[attr] = twin_reads[attr]
    /\ IsObject =>
          /\ \A i \in 1..Len(reads["_latitude"]) :
                Unsigned(obj.regex_match[6]) /\ reads["_latitude"][i].kind = "value"
                    => ~reads["_latitude"][i].value.neg
          /\ \A i \in 1..Len(reads["_longitude"]) :
                Unsigned(obj.regex_match[8]) /\ reads["_longitude"][i].kind = "value"
                    => ~reads["_longitude"][i].value.neg

C10_Witness ==
    /\ IsObject
    /\ obj.regex_match[6] = "4413.5467"
    /\ obj.regex_match[7] = "S"
    /\ obj.regex_match[9] = "E"
    /\ twin_reads["_latitude"] = <<Val([neg |-> FALSE, whole |-> 44, frac |-> 225778])>>
    /\ reads["_latitude"] = twin_reads["_latitude"]

====
